---- MODULE Spec2Model ----
(***************************************************************************)
(* The board simulation of five-lines: the tile catalog, the movement and  *)
(* push rule, the unlock rule and the gravity sweep.                       *)
(*                                                                         *)
(* The repository holds the same program at several stages of a            *)
(* refactoring.  Three of them are modelled, selected by `impl`:           *)
(*   "kinds" - class Board over Tile objects with a Kind                   *)
(*             (src/index.ts 398-702)                                      *)
(*   "enum"  - class Board over the Tile enum (src/unnamed/part_000)       *)
(*   "proc"  - the procedural program over the global map and player       *)
(*             (src/index.ts 204-395)                                      *)
(* A fourth, "falling" (src/index.ts 1-201), is the procedural program     *)
(* with the tiles FALLING_STONE and FALLING_BOX; it has specifications of  *)
(* its own.                                                                *)
(*                                                                         *)
(* A board value is a record [tiles, player, err]: the grid (a sequence of *)
(* rows, each a sequence of tiles; coordinates are 0-based as in the       *)
(* source, so tiles[y][x] of the source is At(tiles, x, y)), the cached    *)
(* player coordinate, and whether the operation threw a TypeError (reading *)
(* a property or an index of undefined).                                   *)
(***************************************************************************)
EXTENDS Integers, Sequences, FiniteSets, TLC

\* inputs is the queue of key presses not yet applied (`inputs`, Keybindings
\* .actions); queued and log record the last tick: the queue it started with
\* and the operations it ran, each with the board it ran on.
VARIABLES impl, tiles, player, err, op, pre, inputs, queued, log

vars == <<impl, tiles, player, err, op, pre, inputs, queued, log>>

\* ---------------------------------------------------------------- bounds
MaxObjects == 2

Impls == {"kinds", "enum", "proc"}

\* ---------------------------------------------------------- tile catalog
Tile == {"AIR", "FLUX", "UNBREAKABLE", "PLAYER", "STONE", "BOX",
         "KEY1", "LOCK1", "KEY2", "LOCK2"}

\* the level codes 0..9, in the order of the enum / of TILE_NUMBERS
TILE_NUMBERS == <<"AIR", "FLUX", "UNBREAKABLE", "PLAYER", "STONE", "BOX",
                  "KEY1", "LOCK1", "KEY2", "LOCK2">>

\* TILES: the Kind each Tile object is constructed with
Kind(t) ==
    CASE t = "AIR" -> "EMPTY"
      [] t = "FLUX" -> "CONSUMABLE"
      [] t = "UNBREAKABLE" -> "IMMOVABLE"
      [] t = "PLAYER" -> "PLAYER"
      [] t = "STONE" -> "PUSHABLE"
      [] t = "BOX" -> "PUSHABLE"
      [] t = "KEY1" -> "CONSUMABLE"
      [] t = "LOCK1" -> "IMMOVABLE"
      [] t = "KEY2" -> "CONSUMABLE"
      [] t = "LOCK2" -> "IMMOVABLE"

\* Tile.unlocks as it would be if the two makeKeyFor calls named the other lock
unlocks_Swapped(t) ==
    CASE t = "KEY1" -> "LOCK2"
      [] t = "KEY2" -> "LOCK1"
      [] OTHER -> "null"

\* Tile.unlocks after the two makeKeyFor calls; "null" for every other tile
unlocks(t) ==
    CASE t = "KEY1" -> "LOCK1"
      [] t = "KEY2" -> "LOCK2"
      [] OTHER -> "null"

\* the Set `consumable` (enum) / `available` (proc)
consumable == {"AIR", "FLUX", "KEY1", "KEY2"}

available == {"AIR", "FLUX", "KEY1", "KEY2"}

\* the Map locksAndKeys (enum and proc)
locksAndKeys == [k \in {"KEY1", "KEY2"} |-> IF k = "KEY1" THEN "LOCK1" ELSE "LOCK2"]

\* ------------------------------------------------------------ grid reads
\* tiles[y][x] in JavaScript: an absent row makes the read throw, an absent
\* column of a present row yields undefined.
Rows(t) == Len(t)

Cols(t) == Len(t[1])

At(t, x, y) == t[y + 1][x + 1]

Index(t, x, y) ==
    IF y + 1 \notin DOMAIN t THEN "throw"
    ELSE IF x + 1 \notin DOMAIN t[y + 1] THEN "undefined"
    ELSE At(t, x, y)

InRange(t, x, y) == Index(t, x, y) \notin {"throw", "undefined"}

\* Cell.tile() followed by `.kind` (kinds): undefined has no property kind
KindAt(t, x, y) ==
    LET v == Index(t, x, y)
    IN IF v \in {"throw", "undefined"} THEN "throw" ELSE Kind(v)

\* Cell.setTile
setTile(t, x, y, tile) == [t EXCEPT ![y + 1][x + 1] = tile]

\* Cell.clear
clear(t, x, y) == setTile(t, x, y, "AIR")

\* Cell.moveTile as it would be without this.clear()
moveTile_NoClear(t, x, y, tx, ty) == setTile(t, tx, ty, At(t, x, y))

\* Cell.moveTile: to.setTile(this.tile()); this.clear()
moveTile(t, x, y, tx, ty) == clear(setTile(t, tx, ty, At(t, x, y)), x, y)

\* the value of this.player when cells() yields no player cell: undefined, on
\* which this.player.dx(dx) of move throws a TypeError
NoPlayer == [x |-> -1, y |-> -1]

Thrown(b) == [b EXCEPT !.err = TRUE]

\* Board.cells: the generator visits the cells row by row from the top, each
\* row from the left; cell i (1-based) of that order
NumCells(t) == Rows(t) * Cols(t)

CellX(t, i) == (i - 1) % Cols(t)

CellY(t, i) == (i - 1) \div Cols(t)

\* =================================================== impl "kinds": class Board
\* Cell.isEmpty: "throw" when tile() is undefined or the row is absent
Cell_isEmpty(t, x, y) ==
    LET k == KindAt(t, x, y)
    IN IF k = "throw" THEN "throw" ELSE IF k = "EMPTY" THEN "true" ELSE "false"

\* Cell.canBeConsumed as it would be if it accepted every tile but walls
Cell_canBeConsumed_Loose(t, x, y) ==
    LET v == Index(t, x, y)
    IN IF v \in {"throw", "undefined"} THEN "throw"
       ELSE IF v \notin {"UNBREAKABLE", "PLAYER", "AIR"} THEN "true" ELSE "false"

\* Cell.canBeConsumed
Cell_canBeConsumed(t, x, y) ==
    LET k == KindAt(t, x, y)
    IN IF k = "throw" THEN "throw" ELSE IF k = "CONSUMABLE" THEN "true" ELSE "false"

\* Cell.canFall as it would be if the player fell like a stone
Cell_canFall_Player(t, x, y) ==
    LET k == KindAt(t, x, y)
    IN IF k = "throw" THEN "throw"
       ELSE IF k \in {"PUSHABLE", "PLAYER"} THEN "true" ELSE "false"

\* Cell.canFall
Cell_canFall(t, x, y) ==
    LET k == KindAt(t, x, y)
    IN IF k = "throw" THEN "throw" ELSE IF k = "PUSHABLE" THEN "true" ELSE "false"

\* Cell.canBePushed as it would be without the check of the cell after
Cell_canBePushed_NoAfter(t, x, y, dx) ==
    LET f == Cell_canFall(t, x, y)
        bl == Cell_isEmpty(t, x, y + 1)
    IN IF f # "true" THEN f
       ELSE IF ~InRange(t, x + dx, y) \/ bl = "throw" THEN "throw"
       ELSE IF bl = "true" THEN "false" ELSE "true"

\* Cell.canBePushed as it would be without the check of the cell below
Cell_canBePushed_NoBelow(t, x, y, dx) ==
    LET f == Cell_canFall(t, x, y)
        a == Cell_isEmpty(t, x + dx, y)
    IN IF f # "true" THEN f ELSE a

\* Cell.canBePushed: canFall() && after.isEmpty() && !below.isEmpty(), left to
\* right with short circuit
Cell_canBePushed(t, x, y, dx) ==
    LET f == Cell_canFall(t, x, y)
        a == Cell_isEmpty(t, x + dx, y)
        bl == Cell_isEmpty(t, x, y + 1)
    IN IF f # "true" THEN f
       ELSE IF a # "true" THEN a
       ELSE IF bl = "throw" THEN "throw"
       ELSE IF bl = "true" THEN "false" ELSE "true"

\* Board.remove as it would be if the sweep stopped at the first match
Board_remove_First(t, tile) ==
    IF \E i \in 1 .. NumCells(t) : At(t, CellX(t, i), CellY(t, i)) = tile
    THEN LET i == CHOOSE i \in 1 .. NumCells(t) :
                    /\ At(t, CellX(t, i), CellY(t, i)) = tile
                    /\ \A j \in 1 .. (i - 1) : At(t, CellX(t, j), CellY(t, j)) # tile
         IN clear(t, CellX(t, i), CellY(t, i))
    ELSE t

\* Board.remove: clear every cell whose tile is `tile`, in cells() order
RECURSIVE Board_removeFrom(_, _, _)
Board_removeFrom(t, tile, i) ==
    IF i > NumCells(t) THEN t
    ELSE Board_removeFrom(
            IF At(t, CellX(t, i), CellY(t, i)) = tile THEN clear(t, CellX(t, i), CellY(t, i)) ELSE t,
            tile, i + 1)

Board_remove(t, tile) == Board_removeFrom(t, tile, 1)

\* Board.maybeUnlock as it would be if any key opened every lock
Board_maybeUnlock_AnyLock(t, current) ==
    IF unlocks(current) # "null"
    THEN Board_remove(Board_remove(t, "LOCK1"), "LOCK2") ELSE t

\* Board.maybeUnlock
Board_maybeUnlock(t, current) ==
    IF unlocks(current) # "null" THEN Board_remove(t, unlocks(current)) ELSE t

\* Board.movePlayerTo as it would be if the old cell were not cleared
Board_movePlayerTo_KeepsOld(b, cx, cy) ==
    [b EXCEPT !.tiles = setTile(Board_maybeUnlock(b.tiles, At(b.tiles, cx, cy)),
                                cx, cy, At(b.tiles, b.player.x, b.player.y)),
              !.player = [x |-> cx, y |-> cy]]

\* Board.movePlayerTo
Board_movePlayerTo(b, cx, cy) ==
    LET t1 == Board_maybeUnlock(b.tiles, At(b.tiles, cx, cy))
    IN [b EXCEPT !.tiles = moveTile(t1, b.player.x, b.player.y, cx, cy),
                 !.player = [x |-> cx, y |-> cy]]

\* Board.move as it would be if the pushed tile were not moved on
Board_move_NoShift(b, dx, dy) ==
    LET gx == b.player.x + dx
        gy == b.player.y + dy
        push == IF dx # 0 THEN Cell_canBePushed(b.tiles, gx, gy, dx) ELSE "false"
        b1 == IF push = "true"
              THEN [b EXCEPT !.tiles = clear(b.tiles, gx, gy)]
              ELSE b
        e == Cell_isEmpty(b1.tiles, gx, gy)
        c == Cell_canBeConsumed(b1.tiles, gx, gy)
    IN IF push = "throw" THEN Thrown(b)
       ELSE IF e = "throw" THEN Thrown(b1)
       ELSE IF e = "true" \/ c = "true" THEN Board_movePlayerTo(b1, gx, gy)
       ELSE b1

\* Board.move
Board_move(b, dx, dy) ==
    IF b.player = NoPlayer THEN Thrown(b) ELSE
    LET gx == b.player.x + dx
        gy == b.player.y + dy
        push == IF dx # 0 THEN Cell_canBePushed(b.tiles, gx, gy, dx) ELSE "false"
        b1 == IF push = "true"
              THEN [b EXCEPT !.tiles = moveTile(b.tiles, gx, gy, gx + dx, gy)]
              ELSE b
        e == Cell_isEmpty(b1.tiles, gx, gy)
        c == Cell_canBeConsumed(b1.tiles, gx, gy)
    IN IF push = "throw" THEN Thrown(b)
       ELSE IF e = "throw" THEN Thrown(b1)
       ELSE IF e = "true" \/ c = "true" THEN Board_movePlayerTo(b1, gx, gy)
       ELSE b1

\* Board.dropTilesOneCell: cells(c => c.canFall()) is a generator, so the
\* predicate is evaluated on the grid as it is when the scan reaches the cell
\* (the grid that a cell leaves is bound to a value, t1, before the scan
\* goes on to the next cell)
RECURSIVE Board_dropFrom(_, _)
Board_dropFrom(t, i) ==
    IF i > NumCells(t) THEN t
    ELSE LET x == CellX(t, i)
             y == CellY(t, i)
             dropped == IF /\ Cell_canFall(t, x, y) = "true"
                           /\ y < Rows(t) - 1
                           /\ Cell_isEmpty(t, x, y + 1) = "true"
                        THEN moveTile(t, x, y, x, y + 1)
                        ELSE t
         IN CHOOSE r \in {Board_dropFrom(t1, i + 1) : t1 \in {dropped}} : TRUE

Board_dropTilesOneCell(b) == [b EXCEPT !.tiles = Board_dropFrom(b.tiles, 1)]

\* ==================================================== impl "enum": class Board
\* Cell.is: this.tile() === tile; undefined equals no tile
EnumCell_is(t, x, y, tile) ==
    LET v == Index(t, x, y)
    IN IF v = "throw" THEN "throw" ELSE IF v = tile THEN "true" ELSE "false"

\* Cell.isEmpty
EnumCell_isEmpty(t, x, y) == EnumCell_is(t, x, y, "AIR")

\* Cell.canBeConsumed: consumable.has(this.tile())
EnumCell_canBeConsumed(t, x, y) ==
    LET v == Index(t, x, y)
    IN IF v = "throw" THEN "throw" ELSE IF v \in consumable THEN "true" ELSE "false"

\* Cell.canFall: this.is(Tile.STONE) || this.is(Tile.BOX)
EnumCell_canFall(t, x, y) ==
    LET s == EnumCell_is(t, x, y, "STONE")
    IN IF s # "false" THEN s ELSE EnumCell_is(t, x, y, "BOX")

\* Cell.canBePushed
EnumCell_canBePushed(t, x, y, dx) ==
    LET f == EnumCell_canFall(t, x, y)
        a == EnumCell_isEmpty(t, x + dx, y)
        bl == EnumCell_isEmpty(t, x, y + 1)
    IN IF f # "true" THEN f
       ELSE IF a # "true" THEN a
       ELSE IF bl = "throw" THEN "throw"
       ELSE IF bl = "true" THEN "false" ELSE "true"

\* Board.remove
RECURSIVE EnumBoard_removeFrom(_, _, _)
EnumBoard_removeFrom(t, tile, i) ==
    IF i > NumCells(t) THEN t
    ELSE EnumBoard_removeFrom(
            IF EnumCell_is(t, CellX(t, i), CellY(t, i), tile) = "true"
            THEN clear(t, CellX(t, i), CellY(t, i)) ELSE t,
            tile, i + 1)

EnumBoard_remove(t, tile) == EnumBoard_removeFrom(t, tile, 1)

\* Board.maybeUnlock
EnumBoard_maybeUnlock(t, current) ==
    IF current \in DOMAIN locksAndKeys
    THEN EnumBoard_remove(t, locksAndKeys[current]) ELSE t

\* Board.movePlayerTo
EnumBoard_movePlayerTo(b, cx, cy) ==
    LET t1 == EnumBoard_maybeUnlock(b.tiles, At(b.tiles, cx, cy))
    IN [b EXCEPT !.tiles = moveTile(t1, b.player.x, b.player.y, cx, cy),
                 !.player = [x |-> cx, y |-> cy]]

\* Board.move
EnumBoard_move(b, dx, dy) ==
    IF b.player = NoPlayer THEN Thrown(b) ELSE
    LET gx == b.player.x + dx
        gy == b.player.y + dy
        c == EnumCell_canBeConsumed(b.tiles, gx, gy)
        push == IF dx # 0 THEN EnumCell_canBePushed(b.tiles, gx, gy, dx) ELSE "false"
    IN IF c = "throw" THEN Thrown(b)
       ELSE IF c = "true" THEN EnumBoard_movePlayerTo(b, gx, gy)
       ELSE IF push = "throw" THEN Thrown(b)
       ELSE IF push = "true"
            THEN EnumBoard_movePlayerTo(
                    [b EXCEPT !.tiles = moveTile(b.tiles, gx, gy, gx + dx, gy)], gx, gy)
       ELSE b

\* Board.dropTilesOneCell
RECURSIVE EnumBoard_dropFrom(_, _)
EnumBoard_dropFrom(t, i) ==
    IF i > NumCells(t) THEN t
    ELSE LET x == CellX(t, i)
             y == CellY(t, i)
             dropped == IF /\ EnumCell_canFall(t, x, y) = "true"
                           /\ y < Rows(t) - 1
                           /\ EnumCell_isEmpty(t, x, y + 1) = "true"
                        THEN moveTile(t, x, y, x, y + 1)
                        ELSE t
         IN CHOOSE r \in {EnumBoard_dropFrom(t1, i + 1) : t1 \in {dropped}} : TRUE

EnumBoard_dropTilesOneCell(b) == [b EXCEPT !.tiles = EnumBoard_dropFrom(b.tiles, 1)]

\* ================================================ impl "proc": global map/player
\* canOccupy
canOccupy(tile) == tile \in available

\* canFall
canFall(tile) == tile = "STONE" \/ tile = "BOX"

\* remove
RECURSIVE removeFrom(_, _, _)
removeFrom(t, tile, i) ==
    IF i > NumCells(t) THEN t
    ELSE removeFrom(
            IF At(t, CellX(t, i), CellY(t, i)) = tile THEN setTile(t, CellX(t, i), CellY(t, i), "AIR") ELSE t,
            tile, i + 1)

remove(t, tile) == removeFrom(t, tile, 1)

\* removeLocks
removeLocks(t, current) ==
    IF current \in DOMAIN locksAndKeys THEN remove(t, locksAndKeys[current]) ELSE t

\* moveToTile
moveToTile(b, px, py) ==
    LET t1 == removeLocks(b.tiles, At(b.tiles, px, py))
        t2 == setTile(t1, b.player.x, b.player.y, "AIR")
        t3 == setTile(t2, px, py, "PLAYER")
    IN [b EXCEPT !.tiles = t3, !.player = [x |-> px, y |-> py]]

\* canPush: the three reads are made before the conjunction, so the read of
\* the row below is made whatever the tile is
canPush(t, gx, gy, dx) ==
    LET newTile == Index(t, gx, gy)
        after == Index(t, gx + dx, gy)
        below == Index(t, gx, gy + 1)
    IN IF "throw" \in {newTile, after, below} THEN "throw"
       ELSE IF (newTile = "STONE" \/ newTile = "BOX") /\ after = "AIR" /\ ~(below = "AIR")
            THEN "true" ELSE "false"

\* moveHorizontal
moveHorizontal(b, dx) ==
    LET gx == b.player.x + dx
        gy == b.player.y
        newTile == Index(b.tiles, gx, gy)
        push == canPush(b.tiles, gx, gy, dx)
    IN IF newTile = "throw" THEN Thrown(b)
       ELSE IF canOccupy(newTile) THEN moveToTile(b, gx, gy)
       ELSE IF push = "throw" THEN Thrown(b)
       ELSE IF push = "true"
            THEN moveToTile([b EXCEPT !.tiles = setTile(b.tiles, gx + dx, gy, newTile)], gx, gy)
       ELSE b

\* moveVertical
moveVertical(b, dy) ==
    LET gx == b.player.x
        gy == b.player.y + dy
        v == Index(b.tiles, gx, gy)
    IN IF v = "throw" THEN Thrown(b)
       ELSE IF canOccupy(v) THEN moveToTile(b, gx, gy)
       ELSE b

\* dropTilesOneCell: rows from the last to the first, each row from the left;
\* step i (1-based) of that order.  The result is [tiles, err]: reading the
\* row below the last row throws and ends the sweep.
ProcY(t, i) == Rows(t) - 1 - ((i - 1) \div Cols(t))

RECURSIVE dropFrom(_, _)
dropFrom(t, i) ==
    IF i > NumCells(t) THEN [tiles |-> t, err |-> FALSE]
    ELSE LET x == CellX(t, i)
             y == ProcY(t, i)
             tile == At(t, x, y)
             below == Index(t, x, y + 1)
         IN IF ~canFall(tile) THEN dropFrom(t, i + 1)
            ELSE IF below = "throw" THEN [tiles |-> t, err |-> TRUE]
            ELSE IF below = "AIR"
                 THEN CHOOSE r \in {dropFrom(t1, i + 1) :
                                        t1 \in {setTile(setTile(t, x, y + 1, tile), x, y, "AIR")}} :
                                TRUE
            ELSE dropFrom(t, i + 1)

dropTilesOneCell(b) ==
    LET r == dropFrom(b.tiles, 1)
    IN [b EXCEPT !.tiles = r.tiles, !.err = r.err]

\* ============================== impl "falling": global map/player, falling tiles
\* enum Tile, in the order of its codes 0..11
FALLING_TILE_NUMBERS ==
    <<"AIR", "FLUX", "UNBREAKABLE", "PLAYER", "STONE", "FALLING_STONE",
      "BOX", "FALLING_BOX", "KEY1", "LOCK1", "KEY2", "LOCK2">>

\* the Set `empty`
empty == {"AIR", "FLUX", "KEY1", "KEY2"}

\* canOccupy
Falling_canOccupy(tile) == tile \in empty

\* remove
RECURSIVE Falling_removeFrom(_, _, _)
Falling_removeFrom(t, tile, i) ==
    IF i > NumCells(t) THEN t
    ELSE Falling_removeFrom(
            IF At(t, CellX(t, i), CellY(t, i)) = tile
            THEN setTile(t, CellX(t, i), CellY(t, i), "AIR") ELSE t,
            tile, i + 1)

Falling_remove(t, tile) == Falling_removeFrom(t, tile, 1)

\* removeLocks: `current in locksAndKeys`, the object with the keys' two entries
Falling_removeLocks(t, current) ==
    IF current \in DOMAIN locksAndKeys THEN Falling_remove(t, locksAndKeys[current]) ELSE t

\* moveToTile
Falling_moveToTile(b, px, py) ==
    LET t1 == Falling_removeLocks(b.tiles, At(b.tiles, px, py))
        t2 == setTile(t1, b.player.x, b.player.y, "AIR")
        t3 == setTile(t2, px, py, "PLAYER")
    IN [b EXCEPT !.tiles = t3, !.player = [x |-> px, y |-> py]]

\* canPush: a falling stone or box is not pushable
Falling_canPush(t, gx, gy, dx) ==
    LET newTile == Index(t, gx, gy)
        after == Index(t, gx + dx, gy)
        below == Index(t, gx, gy + 1)
    IN IF "throw" \in {newTile, after, below} THEN "throw"
       ELSE IF (newTile = "STONE" \/ newTile = "BOX") /\ after = "AIR" /\ ~(below = "AIR")
            THEN "true" ELSE "false"

\* moveHorizontal
Falling_moveHorizontal(b, dx) ==
    LET gx == b.player.x + dx
        gy == b.player.y
        newTile == Index(b.tiles, gx, gy)
        push == Falling_canPush(b.tiles, gx, gy, dx)
    IN IF newTile = "throw" THEN Thrown(b)
       ELSE IF Falling_canOccupy(newTile) THEN Falling_moveToTile(b, gx, gy)
       ELSE IF push = "throw" THEN Thrown(b)
       ELSE IF push = "true"
            THEN Falling_moveToTile(
                    [b EXCEPT !.tiles = setTile(b.tiles, gx + dx, gy, newTile)], gx, gy)
       ELSE b

\* moveVertical
Falling_moveVertical(b, dy) ==
    LET gx == b.player.x
        gy == b.player.y + dy
        v == Index(b.tiles, gx, gy)
    IN IF v = "throw" THEN Thrown(b)
       ELSE IF Falling_canOccupy(v) THEN Falling_moveToTile(b, gx, gy)
       ELSE b

\* dropTiles as it would be if a stone or box fell whatever is below it
RECURSIVE Falling_dropFrom_NoCheck(_, _)
Falling_dropFrom_NoCheck(t, i) ==
    IF i > NumCells(t) THEN [tiles |-> t, err |-> FALSE]
    ELSE LET x == CellX(t, i)
             y == ProcY(t, i)
             tile == At(t, x, y)
             below == Index(t, x, y + 1)
         IN IF tile \in {"STONE", "FALLING_STONE", "BOX", "FALLING_BOX"}
            THEN IF below = "throw" THEN [tiles |-> t, err |-> TRUE]
                 ELSE Falling_dropFrom_NoCheck(
                         setTile(setTile(t, x, y + 1,
                                    IF tile \in {"STONE", "FALLING_STONE"}
                                    THEN "FALLING_STONE" ELSE "FALLING_BOX"),
                                 x, y, "AIR"), i + 1)
            ELSE Falling_dropFrom_NoCheck(t, i + 1)

Falling_dropTiles_NoCheck(b) ==
    LET r == Falling_dropFrom_NoCheck(b.tiles, 1)
    IN [b EXCEPT !.tiles = r.tiles, !.err = r.err]

\* dropTiles: rows from the last to the first, each row from the left (step i
\* of that order as in ProcY).  A stone or box, falling or not, over air
\* moves down as a falling tile; a falling tile that does not move comes to
\* rest.  The read of the row below the last row throws.
RECURSIVE Falling_dropFrom(_, _)
Falling_dropFrom(t, i) ==
    IF i > NumCells(t) THEN [tiles |-> t, err |-> FALSE]
    ELSE LET x == CellX(t, i)
             y == ProcY(t, i)
             tile == At(t, x, y)
             below == Index(t, x, y + 1)
         IN IF tile \in {"STONE", "FALLING_STONE"}
            THEN IF below = "throw" THEN [tiles |-> t, err |-> TRUE]
                 ELSE IF below = "AIR"
                      THEN Falling_dropFrom(
                              setTile(setTile(t, x, y + 1, "FALLING_STONE"), x, y, "AIR"),
                              i + 1)
                 ELSE IF tile = "FALLING_STONE"
                      THEN Falling_dropFrom(setTile(t, x, y, "STONE"), i + 1)
                 ELSE Falling_dropFrom(t, i + 1)
            ELSE IF tile \in {"BOX", "FALLING_BOX"}
            THEN IF below = "throw" THEN [tiles |-> t, err |-> TRUE]
                 ELSE IF below = "AIR"
                      THEN Falling_dropFrom(
                              setTile(setTile(t, x, y + 1, "FALLING_BOX"), x, y, "AIR"),
                              i + 1)
                 ELSE IF tile = "FALLING_BOX"
                      THEN Falling_dropFrom(setTile(t, x, y, "BOX"), i + 1)
                 ELSE Falling_dropFrom(t, i + 1)
            ELSE Falling_dropFrom(t, i + 1)

Falling_dropTiles(b) ==
    LET r == Falling_dropFrom(b.tiles, 1)
    IN [b EXCEPT !.tiles = r.tiles, !.err = r.err]

\* ================================================================== levels
\* A level is a rectangular grid of tile codes with exactly one 3 (the
\* player).
\* the level the three programs ship with (`map`)
ShippedLevel ==
    << <<2, 2, 2, 2, 2, 2, 2, 2>>,
       <<2, 3, 0, 1, 1, 2, 0, 2>>,
       <<2, 4, 2, 5, 1, 2, 0, 2>>,
       <<2, 6, 4, 1, 1, 2, 0, 2>>,
       <<2, 4, 1, 1, 1, 7, 0, 2>>,
       <<2, 2, 2, 2, 2, 2, 2, 2>> >>

\* Small levels with keys, locks and flux: a key with several of its locks
\* and the other pair present, a key with none of its locks, locks above
\* and below the player.
KeyLevels ==
    { << <<7, 9, 7>>,
         <<6, 3, 8>>,
         <<7, 1, 9>> >>,
      << <<3, 6, 9>>,
         <<1, 8, 7>> >>,
      << <<0, 7, 0, 0>>,
         <<6, 3, 4, 1>>,
         <<7, 9, 2, 8>> >> }

\* Empty rooms of these sizes (<<columns, rows>>) with the player in any
\* cell and stones and boxes in at most MaxObjects of the other cells: a
\* square room for the moves and pushes, and a shaft for the falls.  Walls,
\* flux, keys and locks come with ShippedLevel and KeyLevels.
RoomSizes == {<<3, 3>>, <<1, 5>>}

ObjectCodes == {4, 5}

RoomCells(w, h) == {<<x, y>> : x \in 0 .. (w - 1), y \in 0 .. (h - 1)}

Level(w, h, p, f) ==
    [r \in 1 .. h |-> [c \in 1 .. w |->
        IF <<c - 1, r - 1>> = p THEN 3
        ELSE IF <<c - 1, r - 1>> \in DOMAIN f THEN f[<<c - 1, r - 1>>] ELSE 0]]

RoomLevels(w, h) ==
    {Level(w, h, p, f) :
        p \in RoomCells(w, h),
        f \in UNION {[S -> ObjectCodes] :
                        S \in {T \in SUBSET RoomCells(w, h) : Cardinality(T) <= MaxObjects}}}

SmallLevels == UNION {RoomLevels(s[1], s[2]) : s \in RoomSizes}

Levels == SmallLevels \cup KeyLevels \cup {ShippedLevel}

\* Board.constructor: the tiles of the codes, and the first cell of cells()
\* that holds the player
FirstPlayer(t) ==
    IF \A c \in 1 .. NumCells(t) : At(t, CellX(t, c), CellY(t, c)) # "PLAYER" THEN NoPlayer ELSE
    LET i == CHOOSE i \in 1 .. NumCells(t) :
                /\ At(t, CellX(t, i), CellY(t, i)) = "PLAYER"
                /\ \A j \in 1 .. (i - 1) : At(t, CellX(t, j), CellY(t, j)) # "PLAYER"
    IN [x |-> CellX(t, i), y |-> CellY(t, i)]

Board(numbers) ==
    LET t == [r \in DOMAIN numbers |->
                [c \in DOMAIN numbers[r] |-> TILE_NUMBERS[numbers[r][c] + 1]]]
    IN [tiles |-> t, player |-> FirstPlayer(t), err |-> FALSE]

\* ============================================================ state machine
board == [tiles |-> tiles, player |-> player, err |-> err]

Snapshot == [tiles |-> tiles, player |-> player]

Init ==
    /\ impl \in Impls
    /\ \E numbers \in Levels :
          LET b == Board(numbers)
          IN /\ tiles = b.tiles
             /\ player = b.player
             /\ err = b.err
    /\ op = [name |-> "init", dx |-> 0, dy |-> 0]
    /\ pre = Snapshot
    /\ inputs = <<>>
    /\ queued = <<>>
    /\ log = <<>>

Becomes(b, name, dx, dy) ==
    /\ tiles' = b.tiles
    /\ player' = b.player
    /\ err' = b.err
    /\ op' = [name |-> name, dx |-> dx, dy |-> dy]
    /\ pre' = Snapshot
    /\ UNCHANGED <<impl, inputs, queued, log>>

Directions == {<<0, -1>>, <<0, 1>>, <<-1, 0>>, <<1, 0>>}

\* the four key bindings of the Board programs: board.move(dx, dy)
Move ==
    /\ ~err
    /\ impl \in {"kinds", "enum"}
    /\ \E d \in Directions :
          Becomes(IF impl = "kinds" THEN Board_move(board, d[1], d[2])
                  ELSE EnumBoard_move(board, d[1], d[2]),
                  "move", d[1], d[2])

\* Input.LEFT, Input.RIGHT
MoveHorizontal ==
    /\ ~err
    /\ impl = "proc"
    /\ \E dx \in {-1, 1} : Becomes(moveHorizontal(board, dx), "move", dx, 0)

\* Input.UP, Input.DOWN
MoveVertical ==
    /\ ~err
    /\ impl = "proc"
    /\ \E dy \in {-1, 1} : Becomes(moveVertical(board, dy), "move", 0, dy)

\* board.dropTilesOneCell() of step
DropTilesOneCell ==
    /\ ~err
    /\ impl \in {"kinds", "enum"}
    /\ Becomes(IF impl = "kinds" THEN Board_dropTilesOneCell(board)
               ELSE EnumBoard_dropTilesOneCell(board),
               "gravity", 0, 0)

\* dropTilesOneCell() of update
ProcDropTilesOneCell ==
    /\ ~err
    /\ impl = "proc"
    /\ Becomes(dropTilesOneCell(board), "gravity", 0, 0)

Next ==
    \/ Move
    \/ MoveHorizontal
    \/ MoveVertical
    \/ DropTilesOneCell
    \/ ProcDropTilesOneCell

Spec == Init /\ [][Next]_vars

TypeOK ==
    /\ impl \in Impls
    /\ tiles \in Seq(Seq(Tile))
    /\ player \in [x : 0 .. (Cols(tiles) - 1), y : 0 .. (Rows(tiles) - 1)]
    /\ err \in BOOLEAN

\* ------------------------------------------- the program with falling tiles
\* its level (`map`), in the codes of its own enum
FallingShippedLevel ==
    << <<2, 2, 2, 2, 2, 2, 2, 2>>,
       <<2, 3, 0, 1, 1, 2, 0, 2>>,
       <<2, 4, 2, 6, 1, 2, 0, 2>>,
       <<2, 8, 4, 1, 1, 2, 0, 2>>,
       <<2, 4, 1, 1, 1, 9, 0, 2>>,
       <<2, 2, 2, 2, 2, 2, 2, 2>> >>

\* the code that the enum with falling tiles gives the tile of code n
FallingCode(n) ==
    CHOOSE m \in 0 .. (Len(FALLING_TILE_NUMBERS) - 1) :
        FALLING_TILE_NUMBERS[m + 1] = TILE_NUMBERS[n + 1]

FallingLevels ==
    {FallingShippedLevel}
    \cup {[r \in DOMAIN l |-> [c \in DOMAIN l[r] |-> FallingCode(l[r][c])]] : l \in Levels}

\* `map` and `player`: the tiles of the codes and the point of the player tile
FallingBoard(numbers) ==
    LET t == [r \in DOMAIN numbers |->
                [c \in DOMAIN numbers[r] |-> FALLING_TILE_NUMBERS[numbers[r][c] + 1]]]
    IN [tiles |-> t, player |-> FirstPlayer(t), err |-> FALSE]

InitFalling ==
    /\ impl = "falling"
    /\ \E numbers \in FallingLevels :
          LET b == FallingBoard(numbers)
          IN /\ tiles = b.tiles
             /\ player = b.player
             /\ err = b.err
    /\ op = [name |-> "init", dx |-> 0, dy |-> 0]
    /\ pre = Snapshot
    /\ inputs = <<>>
    /\ queued = <<>>
    /\ log = <<>>

\* Input.LEFT, Input.RIGHT of update
FallingMoveHorizontal ==
    /\ ~err
    /\ impl = "falling"
    /\ \E dx \in {-1, 1} : Becomes(Falling_moveHorizontal(board, dx), "move", dx, 0)

\* Input.UP, Input.DOWN of update
FallingMoveVertical ==
    /\ ~err
    /\ impl = "falling"
    /\ \E dy \in {-1, 1} : Becomes(Falling_moveVertical(board, dy), "move", 0, dy)

\* dropTiles() of update
DropTiles ==
    /\ ~err
    /\ impl = "falling"
    /\ Becomes(Falling_dropTiles(board), "gravity", 0, 0)

NextFalling ==
    \/ FallingMoveHorizontal
    \/ FallingMoveVertical
    \/ DropTiles

SpecFalling == InitFalling /\ [][NextFalling]_vars

\* ================================================= loading any level grid
\* new Board(level, ...) for the two Board programs on level grids that hold
\* any number of player tiles up to MaxPlayers: a room with the players in
\* any cells and at most one stone or box elsewhere.
MaxPlayers == 2

LoadLevel(w, h, ps, f) ==
    [r \in 1 .. h |-> [c \in 1 .. w |->
        IF <<c - 1, r - 1>> \in ps THEN 3
        ELSE IF <<c - 1, r - 1>> \in DOMAIN f THEN f[<<c - 1, r - 1>>] ELSE 0]]

LoadLevels ==
    UNION {{LoadLevel(s[1], s[2], ps, f) :
                ps \in {T \in SUBSET RoomCells(s[1], s[2]) : Cardinality(T) <= MaxPlayers},
                f \in UNION {[S -> {4, 5}] :
                                S \in {T \in SUBSET RoomCells(s[1], s[2]) : Cardinality(T) <= 1}}} :
           s \in RoomSizes}

InitLoad ==
    /\ impl \in {"kinds", "enum"}
    /\ \E numbers \in LoadLevels :
          LET b == Board(numbers)
          IN /\ tiles = b.tiles
             /\ player = b.player
             /\ err = b.err
    /\ op = [name |-> "init", dx |-> 0, dy |-> 0]
    /\ pre = Snapshot
    /\ inputs = <<>>
    /\ queued = <<>>
    /\ log = <<>>

NextLoad ==
    \/ Move
    \/ DropTilesOneCell

SpecLoad == InitLoad /\ [][NextLoad]_vars

\* ================================================================== ticks
\* The programs as they run: key handlers queue actions, and the game loop
\* runs one tick at a time.  A tick is one step; a TypeError thrown inside
\* it ends the tick where it is thrown, and the loop with it (setTimeout is
\* reached only after the tick returns).
MaxQueue == 2

\* the action queued by a key press, run on board b
ApplyAction(i, b, d) ==
    CASE i = "kinds" -> Board_move(b, d[1], d[2])
      [] i = "enum" -> EnumBoard_move(b, d[1], d[2])
      [] i = "proc" -> IF d[1] # 0 THEN moveHorizontal(b, d[1]) ELSE moveVertical(b, d[2])
      [] i = "falling" -> IF d[1] # 0 THEN Falling_moveHorizontal(b, d[1])
                          ELSE Falling_moveVertical(b, d[2])

\* the gravity sweep of the tick
Sweep(i, b) ==
    CASE i = "kinds" -> Board_dropTilesOneCell(b)
      [] i = "enum" -> EnumBoard_dropTilesOneCell(b)
      [] i = "proc" -> dropTilesOneCell(b)
      [] i = "falling" -> Falling_dropTiles(b)

Entry(name, d, b) ==
    [name |-> name, dx |-> d[1], dy |-> d[2], tiles |-> b.tiles, player |-> b.player]

\* Keybindings.doActions: while (this.actions.length > 0) this.actions.shift()()
RECURSIVE Keybindings_doActions(_, _, _, _)
Keybindings_doActions(i, b, q, l) ==
    IF q = <<>> THEN [board |-> b, inputs |-> q, log |-> l]
    ELSE LET b1 == ApplyAction(i, b, Head(q))
             l1 == Append(l, Entry("move", Head(q), b))
         IN IF b1.err THEN [board |-> b1, inputs |-> Tail(q), log |-> l1]
            ELSE Keybindings_doActions(i, b1, Tail(q), l1)

\* processInputs, and the loop of update in the program with falling tiles:
\* while (inputs.length > 0) inputs.pop()
RECURSIVE processInputs(_, _, _, _)
processInputs(i, b, q, l) ==
    IF q = <<>> THEN [board |-> b, inputs |-> q, log |-> l]
    ELSE LET current == q[Len(q)]
             rest == SubSeq(q, 1, Len(q) - 1)
             b1 == ApplyAction(i, b, current)
             l1 == Append(l, Entry("move", current, b))
         IN IF b1.err THEN [board |-> b1, inputs |-> rest, log |-> l1]
            ELSE processInputs(i, b1, rest, l1)

\* the sweep that follows the queued actions, unless one of them threw
ThenSweep(i, r) ==
    IF r.board.err THEN r
    ELSE [board |-> Sweep(i, r.board), inputs |-> r.inputs,
          log |-> Append(r.log, Entry("gravity", <<0, 0>>, r.board))]

\* step: keybindings.doActions(); board.dropTilesOneCell()
step(i, b, q) == ThenSweep(i, Keybindings_doActions(i, b, q, <<>>))

\* update: processInputs(); dropTilesOneCell()  (dropTiles() with falling tiles)
update(i, b, q) == ThenSweep(i, processInputs(i, b, q, <<>>))

TickImpls == Impls \cup {"falling"}

TickLevels == KeyLevels \cup {ShippedLevel}

FallingTickLevels ==
    {FallingShippedLevel}
    \cup {[r \in DOMAIN l |-> [c \in DOMAIN l[r] |-> FallingCode(l[r][c])]] : l \in KeyLevels}

InitFrom(levels, fallingLevels) ==
    /\ impl \in TickImpls
    /\ \E b \in IF impl = "falling" THEN {FallingBoard(n) : n \in fallingLevels}
                ELSE {Board(n) : n \in levels} :
          /\ tiles = b.tiles
          /\ player = b.player
          /\ err = b.err
    /\ op = [name |-> "init", dx |-> 0, dy |-> 0]
    /\ pre = Snapshot
    /\ inputs = <<>>
    /\ queued = <<>>
    /\ log = <<>>

InitTick == InitFrom(TickLevels, FallingTickLevels)

\* a key press queues its action
Queue(d) ==
    /\ ~err
    /\ Len(inputs) < MaxQueue
    /\ inputs' = Append(inputs, d)
    /\ op' = [name |-> "key", dx |-> d[1], dy |-> d[2]]
    /\ pre' = Snapshot
    /\ queued' = <<>>
    /\ log' = <<>>
    /\ UNCHANGED <<impl, tiles, player, err>>

\* Keybindings.handle
Handle == impl \in {"kinds", "enum"} /\ \E d \in Directions : Queue(d)

\* keyHandler
KeyHandler == impl = "proc" /\ \E d \in Directions : Queue(d)

\* the keydown listener of the program with falling tiles
KeyDown == impl = "falling" /\ \E d \in Directions : Queue(d)

Ticked(r) ==
    /\ tiles' = r.board.tiles
    /\ player' = r.board.player
    /\ err' = r.board.err
    /\ inputs' = r.inputs
    /\ queued' = inputs
    /\ log' = r.log
    /\ op' = [name |-> "step", dx |-> 0, dy |-> 0]
    /\ pre' = Snapshot
    /\ UNCHANGED impl

\* one turn of loop(step)
Step == ~err /\ impl \in {"kinds", "enum"} /\ Ticked(step(impl, board, inputs))

\* one turn of gameLoop
Update == ~err /\ impl = "proc" /\ Ticked(update(impl, board, inputs))

\* one turn of gameLoop of the program with falling tiles
FallingUpdate == ~err /\ impl = "falling" /\ Ticked(update(impl, board, inputs))

NextTick ==
    \/ Handle
    \/ KeyHandler
    \/ KeyDown
    \/ Step
    \/ Update
    \/ FallingUpdate

SpecTick == InitTick /\ [][NextTick]_vars

\* the same from the level that the programs ship with
InitShipped == InitFrom({ShippedLevel}, {FallingShippedLevel})

SpecShipped == InitShipped /\ [][NextTick]_vars

\* ================================================================ settling
\* The game loop with no key pressed: every tick is a gravity sweep alone.
\* The loop schedules its next turn with setTimeout as long as the tick
\* returns, so a sweep that can run does run (weak fairness); a sweep that
\* throws ends the loop.
NextSettle ==
    \/ DropTilesOneCell
    \/ ProcDropTilesOneCell

SpecSettle ==
    /\ Init
    /\ [][NextSettle]_vars
    /\ WF_vars(DropTilesOneCell)
    /\ WF_vars(ProcDropTilesOneCell)

\* ============================================================== properties
InGrid(t, x, y) == y + 1 \in DOMAIN t /\ x + 1 \in DOMAIN t[y + 1]

GridCells(t) == {<<x, y>> : x \in 0 .. (Cols(t) - 1), y \in 0 .. (Rows(t) - 1)}

CellsHolding(t, tile) == {c \in GridCells(t) : At(t, c[1], c[2]) = tile}

Pushables == {"STONE", "BOX"}

\* the player's target cell of the last move, and the cell beyond it
TargetX == pre.player.x + op.dx

TargetY == pre.player.y + op.dy

FarX == TargetX + op.dx

FarY == TargetY + op.dy

TargetInGrid == InGrid(pre.tiles, TargetX, TargetY)

TargetTile == At(pre.tiles, TargetX, TargetY)

Unchanged == tiles = pre.tiles /\ player = pre.player

\* C1: after initialization from a level with one player tile and after every
\* move or gravity call, exactly one cell holds PLAYER and the cached player
\* coordinate is that cell.
C1_OnePlayer ==
    /\ Cardinality(CellsHolding(tiles, "PLAYER")) = 1
    /\ At(tiles, player.x, player.y) = "PLAYER"

\* a move has relocated the player
C1_Witness ==
    /\ op.name = "move"
    /\ player # pre.player
    /\ At(pre.tiles, player.x, player.y) # "AIR"

\* C2: in one gravity call no stone or box moves down more than one row: a
\* cell that holds a pushable tile after the call held that tile before the
\* call, or the cell directly above it did.
C2_OneRowPerCall ==
    op.name = "gravity" =>
        \A c \in GridCells(tiles) :
            At(tiles, c[1], c[2]) \in Pushables =>
                \/ At(pre.tiles, c[1], c[2]) = At(tiles, c[1], c[2])
                \/ /\ c[2] >= 1
                   /\ At(pre.tiles, c[1], c[2] - 1) = At(tiles, c[1], c[2])

\* C3: a stack of two pushable tiles (rows y and y+1) with air below it: after
\* one gravity call the bottom tile is at row y+2 and the top tile still at
\* row y.
C3_FallOrdering ==
    op.name = "gravity" =>
        \A c \in GridCells(pre.tiles) :
            LET x == c[1]
                y == c[2]
            IN (/\ InGrid(pre.tiles, x, y + 2)
                /\ At(pre.tiles, x, y) \in Pushables
                /\ At(pre.tiles, x, y + 1) \in Pushables
                /\ At(pre.tiles, x, y + 2) = "AIR")
               => /\ At(tiles, x, y) = At(pre.tiles, x, y)
                  /\ At(tiles, x, y + 2) = At(pre.tiles, x, y + 1)

\* C4: a move whose target, or whose push destination or below-target cell
\* (for a horizontal move into a pushable tile), lies outside the grid is a
\* no-op that raises no error.
C4_OutOfGridNoOp ==
    (/\ op.name = "move"
     /\ \/ ~TargetInGrid
        \/ /\ op.dx # 0
           /\ TargetTile \in Pushables
           /\ \/ ~InGrid(pre.tiles, FarX, FarY)
              \/ ~InGrid(pre.tiles, TargetX, TargetY + 1))
    => (~err /\ Unchanged)

\* C5: when a move puts the player on a key, no cell holds the lock paired
\* with that key afterwards.
C5_UnlockComplete ==
    (/\ op.name = "move"
     /\ TargetInGrid
     /\ TargetTile \in {"KEY1", "KEY2"}
     /\ player = [x |-> TargetX, y |-> TargetY])
    => CellsHolding(tiles, IF TargetTile = "KEY1" THEN "LOCK1" ELSE "LOCK2") = {}

\* the player has collected a key that had several locks
C5_Witness ==
    /\ op.name = "move"
    /\ TargetInGrid
    /\ TargetTile = "KEY1"
    /\ player = [x |-> TargetX, y |-> TargetY]
    /\ Cardinality(CellsHolding(pre.tiles, "LOCK1")) >= 2
    /\ CellsHolding(tiles, "LOCK1") = {}

\* C6: if the cell one step beyond a pushable target, in the direction of the
\* move, is not an empty cell, neither the tile nor the player moves.
C6_PushGuard ==
    (/\ op.name = "move"
     /\ TargetInGrid
     /\ TargetTile \in Pushables
     /\ ~(InGrid(pre.tiles, FarX, FarY) /\ At(pre.tiles, FarX, FarY) = "AIR"))
    => Unchanged

\* a horizontal move into a supported pushable tile with a tile beyond it
C6_Witness ==
    /\ op.name = "move"
    /\ op.dx # 0
    /\ TargetInGrid
    /\ TargetTile \in Pushables
    /\ InGrid(pre.tiles, FarX, FarY)
    /\ At(pre.tiles, FarX, FarY) # "AIR"
    /\ InGrid(pre.tiles, TargetX, TargetY + 1)
    /\ At(pre.tiles, TargetX, TargetY + 1) # "AIR"
    /\ Unchanged
    /\ ~err

FloatingPush ==
    /\ op.name = "move"
    /\ op.dx # 0
    /\ TargetInGrid
    /\ TargetTile \in Pushables
    /\ InGrid(pre.tiles, FarX, FarY)
    /\ At(pre.tiles, FarX, FarY) = "AIR"
    /\ InGrid(pre.tiles, TargetX, TargetY + 1)
    /\ At(pre.tiles, TargetX, TargetY + 1) = "AIR"

\* C7: a horizontal move into a pushable tile with air beyond it and air
\* directly below it changes nothing.
C7_FloatingGuard == FloatingPush => Unchanged

C7_Witness == FloatingPush /\ Unchanged /\ ~err

VerticalBlocked ==
    /\ op.name = "move"
    /\ op.dx = 0
    /\ TargetInGrid
    /\ Kind(TargetTile) \in {"PUSHABLE", "IMMOVABLE"}

\* C8: a move up or down into a pushable or immovable tile (a lock included)
\* leaves the grid and the player coordinate unchanged.
C8_NoVerticalPush == VerticalBlocked => Unchanged

\* a vertical move into a stone or box that has air beyond it and a tile below
C8_Witness ==
    /\ VerticalBlocked
    /\ TargetTile \in Pushables
    /\ InGrid(pre.tiles, FarX, FarY)
    /\ At(pre.tiles, FarX, FarY) = "AIR"
    /\ Unchanged
    /\ ~err

\* a vertical move into a lock
C8_WitnessLock == VerticalBlocked /\ TargetTile \in {"LOCK1", "LOCK2"} /\ Unchanged

SupportedPush ==
    /\ op.name = "move"
    /\ op.dx # 0
    /\ TargetInGrid
    /\ TargetTile \in Pushables
    /\ InGrid(pre.tiles, FarX, FarY)
    /\ At(pre.tiles, FarX, FarY) = "AIR"
    /\ InGrid(pre.tiles, TargetX, TargetY + 1)
    /\ At(pre.tiles, TargetX, TargetY + 1) # "AIR"

\* the grid `t` with the tiles of `changes` (a function from cells) written
Overwritten(t, changes) ==
    [r \in DOMAIN t |-> [c \in DOMAIN t[r] |->
        IF <<c - 1, r - 1>> \in DOMAIN changes THEN changes[<<c - 1, r - 1>>]
        ELSE t[r][c]]]

\* C9: a horizontal move into a pushable tile with air beyond it and a tile
\* below it puts that tile in the far cell, the player in the target cell and
\* air in the player's old cell, and changes no other cell.
C9_SuccessfulPush ==
    SupportedPush =>
        /\ player = [x |-> TargetX, y |-> TargetY]
        /\ tiles = Overwritten(pre.tiles,
                      (<<FarX, FarY>> :> TargetTile)
                      @@ (<<TargetX, TargetY>> :> "PLAYER")
                      @@ (<<pre.player.x, pre.player.y>> :> "AIR"))
        /\ ~err

\* a box has been pushed
C9_Witness ==
    /\ SupportedPush
    /\ TargetTile = "BOX"
    /\ At(tiles, FarX, FarY) = "BOX"
    /\ player = [x |-> TargetX, y |-> TargetY]

DirectMove ==
    /\ op.name = "move"
    /\ TargetInGrid
    /\ TargetTile \in {"AIR", "FLUX", "KEY1", "KEY2"}

\* the cells of the lock that the tile, if a key, is paired with
PairedLockCells(t, tile) ==
    CASE tile = "KEY1" -> CellsHolding(t, "LOCK1")
      [] tile = "KEY2" -> CellsHolding(t, "LOCK2")
      [] OTHER -> {}

\* C10: a move into an occupiable cell (air, flux, a key) puts the player in
\* it, air in the old cell and updates the coordinate; the cells of the lock
\* paired with a collected key become air and no other cell changes.
C10_DirectMove ==
    DirectMove =>
        /\ player = [x |-> TargetX, y |-> TargetY]
        /\ tiles = Overwritten(pre.tiles,
                      [c \in PairedLockCells(pre.tiles, TargetTile) |-> "AIR"]
                      @@ (<<TargetX, TargetY>> :> "PLAYER")
                      @@ (<<pre.player.x, pre.player.y>> :> "AIR"))
        /\ ~err

\* the player has collected a key while a lock of the other pair was present
C10_Witness ==
    /\ DirectMove
    /\ TargetTile \in {"KEY1", "KEY2"}
    /\ PairedLockCells(pre.tiles, TargetTile) # {}
    /\ CellsHolding(tiles, "LOCK1") \cup CellsHolding(tiles, "LOCK2") # {}
    /\ player = [x |-> TargetX, y |-> TargetY]

LockOfKey(tile) == IF tile = "KEY1" THEN "LOCK1" ELSE "LOCK2"

KeyOfLock(tile) == IF tile = "LOCK1" THEN "KEY1" ELSE "KEY2"

\* C11: the pairing of keys and locks is specific: a lock cell changes only
\* when a move puts the player on the key paired with that lock, and then it
\* becomes air; a key leaves the cells of the other lock in place, and a move
\* onto air or flux, a refused move and a gravity call change no lock cell.
C11_PairingSpecific ==
    \A c \in GridCells(pre.tiles) :
        (/\ At(pre.tiles, c[1], c[2]) \in {"LOCK1", "LOCK2"}
         /\ At(tiles, c[1], c[2]) # At(pre.tiles, c[1], c[2]))
        => /\ op.name = "move"
           /\ TargetInGrid
           /\ TargetTile = KeyOfLock(At(pre.tiles, c[1], c[2]))
           /\ player = [x |-> TargetX, y |-> TargetY]
           /\ At(tiles, c[1], c[2]) = "AIR"

\* key2 has been collected: its locks are gone and the locks of key1 are all
\* where they were
C11_Witness ==
    /\ op.name = "move"
    /\ TargetInGrid
    /\ TargetTile = "KEY2"
    /\ player = [x |-> TargetX, y |-> TargetY]
    /\ CellsHolding(pre.tiles, "LOCK2") # {}
    /\ CellsHolding(tiles, "LOCK2") = {}
    /\ CellsHolding(pre.tiles, "LOCK1") # {}
    /\ CellsHolding(tiles, "LOCK1") = CellsHolding(pre.tiles, "LOCK1")

\* the tiles that gravity moves: stones and boxes, falling or not
Fallers == {"STONE", "BOX", "FALLING_STONE", "FALLING_BOX"}

\* no stone or box has an air cell directly below it
Settled(t) ==
    \A c \in GridCells(t) :
        At(t, c[1], c[2]) \in Fallers =>
            ~(InGrid(t, c[1], c[2] + 1) /\ At(t, c[1], c[2] + 1) = "AIR")

\* C12 as stated: on a settled board a gravity call leaves every cell, its
\* tile kind included, and the player coordinate unchanged.
C12_SettledUnchanged == (op.name = "gravity" /\ Settled(pre.tiles)) => Unchanged

\* a falling tile at rest
Resting(tile) ==
    CASE tile = "FALLING_STONE" -> "STONE"
      [] tile = "FALLING_BOX" -> "BOX"
      [] OTHER -> tile

\* C12 (amended): on a settled board a gravity call moves no tile and leaves
\* the player coordinate unchanged: every cell keeps its tile, except that a
\* FALLING_STONE may become STONE and a FALLING_BOX may become BOX where it
\* is, and does so whenever the call ends without an error.
C12_SettledComesToRest ==
    (op.name = "gravity" /\ Settled(pre.tiles)) =>
        /\ player = pre.player
        /\ DOMAIN tiles = DOMAIN pre.tiles
        /\ \A c \in GridCells(pre.tiles) :
              At(tiles, c[1], c[2]) \in
                 {At(pre.tiles, c[1], c[2]), Resting(At(pre.tiles, c[1], c[2]))}
        /\ ~err => tiles = [r \in DOMAIN pre.tiles |->
                              [c \in DOMAIN pre.tiles[r] |-> Resting(pre.tiles[r][c])]]

\* a gravity call on a settled board that holds stones or boxes, one of them
\* still a falling tile
C12_Witness ==
    /\ op.name = "gravity"
    /\ Settled(pre.tiles)
    /\ \E c \in GridCells(pre.tiles) : At(pre.tiles, c[1], c[2]) \in {"FALLING_STONE", "FALLING_BOX"}
    /\ \E c \in GridCells(pre.tiles) : At(pre.tiles, c[1], c[2]) \in {"STONE", "BOX"}
    /\ ~err

\* a Pushable tile in the last row of the grid before the last operation
BottomPushables(t) == {c \in GridCells(t) : c[2] = Rows(t) - 1 /\ At(t, c[1], c[2]) \in Pushables}

\* C16: a gravity call never reads the row below the last row: it completes
\* without an out-of-range access, and every stone or box of the bottom row
\* stays in its cell.
C16_BottomRowSafe ==
    op.name = "gravity" =>
        /\ ~err
        /\ \A c \in BottomPushables(pre.tiles) :
              At(tiles, c[1], c[2]) = At(pre.tiles, c[1], c[2])

\* C17: a gravity call leaves the player coordinate and the PLAYER cell as they
\* were, and changes only cells that held a stone, a box or AIR before the call.
C17_GravityFrame ==
    op.name = "gravity" =>
        /\ player = pre.player
        /\ DOMAIN tiles = DOMAIN pre.tiles
        /\ At(tiles, player.x, player.y) = "PLAYER"
        /\ \A c \in GridCells(pre.tiles) :
              At(tiles, c[1], c[2]) # At(pre.tiles, c[1], c[2])
                  => At(pre.tiles, c[1], c[2]) \in Pushables \cup {"AIR"}

\* a sweep dropped a tile while the cell below the player was AIR, and a cell
\* that is neither Pushable nor AIR stood beside the tiles that fell
C17_Witness ==
    /\ op.name = "gravity"
    /\ tiles # pre.tiles
    /\ InGrid(pre.tiles, pre.player.x, pre.player.y + 1)
    /\ At(pre.tiles, pre.player.x, pre.player.y + 1) = "AIR"
    /\ At(tiles, pre.player.x, pre.player.y) = "PLAYER"
    /\ \E c \in GridCells(pre.tiles) :
          At(pre.tiles, c[1], c[2]) \in {"FLUX", "UNBREAKABLE", "KEY1", "LOCK1"}

Count(t, tile) == Cardinality(CellsHolding(t, tile))

\* C20: every move and every gravity call keeps the number of STONE cells and
\* the number of BOX cells, leaves every UNBREAKABLE cell as it is, and does not
\* increase the number of FLUX, key or lock cells.
C20_TileConservation ==
    op.name \in {"move", "gravity"} =>
        /\ DOMAIN tiles = DOMAIN pre.tiles
        /\ Count(tiles, "STONE") = Count(pre.tiles, "STONE")
        /\ Count(tiles, "BOX") = Count(pre.tiles, "BOX")
        /\ \A c \in CellsHolding(pre.tiles, "UNBREAKABLE") :
              At(tiles, c[1], c[2]) = "UNBREAKABLE"
        /\ \A tile \in {"FLUX", "KEY1", "KEY2", "LOCK1", "LOCK2"} :
              Count(tiles, tile) <= Count(pre.tiles, tile)

\* a push moved a stone or a box, and a sweep dropped one, on a grid that holds
\* both
C20_Witness ==
    /\ op.name = "move"
    /\ TargetInGrid
    /\ TargetTile \in Pushables
    /\ player # pre.player
    /\ Count(pre.tiles, "STONE") > 0
    /\ Count(pre.tiles, "BOX") > 0

C20_WitnessFall ==
    /\ op.name = "gravity"
    /\ tiles # pre.tiles
    /\ Count(pre.tiles, "STONE") > 0
    /\ Count(pre.tiles, "BOX") > 0
    /\ Count(pre.tiles, "FLUX") > 0

\* C15: construction from a level grid with no player tile or with more than
\* one player tile fails: the state after construction is an error, not a board.
C15_LoadFails ==
    (op.name = "init" /\ Count(tiles, "PLAYER") # 1) => err

\* the queued actions applied in the order they were queued
RECURSIVE ApplyInOrder(_, _, _)
ApplyInOrder(i, b, q) ==
    IF q = <<>> \/ b.err THEN b ELSE ApplyInOrder(i, ApplyAction(i, b, Head(q)), Tail(q))

\* the board that the queued actions of the last tick left, before its sweep
AfterActions ==
    IF log # <<>> /\ log[Len(log)].name = "gravity"
    THEN [tiles |-> log[Len(log)].tiles, player |-> log[Len(log)].player]
    ELSE Snapshot

\* C13: a tick applies the actions queued before it first-queued first: the
\* board its actions leave is the board of applying them in queue order.
C13_FifoOrder ==
    op.name = "step" =>
        LET b == ApplyInOrder(impl, [tiles |-> pre.tiles, player |-> pre.player, err |-> FALSE],
                              queued)
        IN AfterActions = [tiles |-> b.tiles, player |-> b.player]

\* C14: a tick applies every action that was queued at its start, then runs
\* exactly one gravity sweep, applies no action after the sweep, and leaves the
\* queue empty.
C14_TickStructure ==
    op.name = "step" =>
        /\ inputs = <<>>
        /\ Len(log) = Len(queued) + 1
        /\ \A k \in 1 .. Len(queued) : log[k].name = "move"
        /\ log[Len(log)].name = "gravity"

\* C18: in the runs of ticks from the shipped level, every move is applied to
\* a settled board: no stone or box has AIR directly below it.
C18_MovesOnSettled ==
    \A k \in 1 .. Len(log) : log[k].name = "move" => Settled(log[k].tiles)

\* an entry of the log is a horizontal move into a stone or a box whose far
\* cell is AIR
PushAttempt(e) ==
    /\ e.name = "move"
    /\ e.dx # 0
    /\ InGrid(e.tiles, e.player.x + e.dx, e.player.y)
    /\ At(e.tiles, e.player.x + e.dx, e.player.y) \in Fallers
    /\ InGrid(e.tiles, e.player.x + 2 * e.dx, e.player.y)
    /\ At(e.tiles, e.player.x + 2 * e.dx, e.player.y) = "AIR"

\* C19: in the runs of ticks from the shipped level, whenever the player moves
\* horizontally into a stone or a box whose far cell is AIR, the cell directly
\* below that stone or box is not AIR.
C19_PushedIsSupported ==
    \A k \in 1 .. Len(log) :
        PushAttempt(log[k]) =>
            ~(/\ InGrid(log[k].tiles, log[k].player.x + log[k].dx, log[k].player.y + 1)
              /\ At(log[k].tiles, log[k].player.x + log[k].dx, log[k].player.y + 1) = "AIR")

\* C21: with no further action applied, repeated gravity calls reach a settled
\* board (no stone or box has AIR directly below it), and a gravity call on a
\* settled board leaves the grid as it is.
C21_SettlingTerminates ==
    /\ <>[]Settled(tiles)
    /\ [][Settled(tiles) => tiles' = tiles]_vars

====
